---- MODULE Spec2Model ----
(***************************************************************************)
(* State-machine model of FlutterBridgeSDK (src/src/index.ts): the         *)
(* correlation table of outstanding requests (pendingPromises), the event  *)
(* registry (eventListeners), the inbound entry point (dispatch) and the   *)
(* readiness gate (waitForBridgeReady).  JavaScript is single threaded:    *)
(* every action below is one run-to-completion segment of the code, from   *)
(* a call or a callback up to its next await or its return.                *)
(***************************************************************************)
EXTENDS Integers, Sequences, FiniteSets, TLC

(* ------------------------------ bounds -------------------------------- *)

\* number of postMessage calls made by the page
MaxReq == 2
\* number of inbound messages that reach the event branch of dispatch
MaxEvt == 1
\* number of postMessage calls made on the explicit-initialization variant
MaxExplicitCalls == 3

(* ----------------------- configuration (line 9-11) -------------------- *)

channelName == "client_to_native_channel"
innerChannel == "native_to_client_channel"
DefaultTimeout == 15000

Channels == {channelName, innerChannel}

(* ------------------------- JavaScript values -------------------------- *)

\* window[name]: nothing bound, an object without a callable postMessage,
\* an object with a postMessage function
BridgeVals == {"undefined", "nofn", "ok"}

\* a numeric field of an envelope: absent or a number
JUndef == [t |-> "undefined", v |-> 0]
JNum(n) == [t |-> "number", v |-> n]

Actions == {"a1", "a2"}
Handlers == {"hA", "hB"}

\* the generator returns a number
NanoId_Numeric(n) == "number:7"

\* nanoid(): the n-th identifier it returns; distinct calls return distinct strings
NanoId(n) == "id" \o ToString(n)

IssuedIds == {NanoId(n) : n \in 1..MaxReq}
\* ids that are not strings: an absent id and a numeric id
NonStringIds == {"undefined", "number:7"}
\* ids nanoid() never returned: a string no request has, and the ids that are no strings
ForeignIds == {"zz"} \cup NonStringIds
DataVals == {"undefined", "d1"}
\* code: absent, below 200, in 200..299, 300 and above
CodeVals == {JUndef} \cup {JNum(n) : n \in {0, 199, 200, 299, 300, 500}}
\* errorMessage: absent, empty, non-empty
MsgVals == {"undefined", "", "bad"}
\* the data argument of postMessage: a plain value, or one JSON.stringify throws on
ReqDataVals == {"d1", "circular"}
\* what a handler's promise resolves with
ResultVals == {"undefined", "r1"}

IsString(v) == v \notin NonStringIds

\* the raw strings the host hands to dispatch, by what JSON.parse makes of them
NonObjects ==
  { [kind |-> k, id |-> "undefined", action |-> "undefined", data |-> "undefined",
     code |-> JUndef, errorMessage |-> "undefined"] : k \in {"invalid", "null", "primitive"} }
Envelopes(ids, actions, datas, codes, errorMessages) ==
  [kind : {"object"}, id : ids, action : actions, data : datas,
   code : codes, errorMessage : errorMessages]
\* envelopes as the host answers requests with, and envelopes no request is waiting for
ResponseInbound ==
  NonObjects
  \cup Envelopes(IssuedIds, {"undefined"}, DataVals, {JUndef, JNum(200)}, {"undefined"})
  \cup Envelopes(IssuedIds, {"undefined"}, {"d1"}, {JUndef, JNum(500)}, {"bad"})
  \cup Envelopes(IssuedIds, {"undefined"}, {"d1"}, {JUndef, JNum(0), JNum(500)},
                 {"undefined", ""})
  \cup Envelopes(ForeignIds, {"undefined"}, {"d1"}, {JNum(200)}, {"undefined"})
\* envelopes as the host pushes events with: the id is optional
EventInbound ==
  NonObjects
  \cup Envelopes({"undefined", "zz"}, {"a1"}, {"d1"}, {JUndef}, {"undefined"})
  \cup Envelopes({"zz"}, {"a2", "undefined"}, {"d1"}, {JUndef}, {"undefined"})
\* raw strings JSON.parse throws on although they spell an id and an action, as
\* an envelope cut off before its closing brace
Truncated ==
  [kind : {"invalid"}, id : IssuedIds \cup {"undefined"}, action : Actions,
   data : {"d1"}, code : {JUndef}, errorMessage : {"undefined"}]
\* envelopes that carry both the id of a request and the action of an event
MixedInbound ==
  NonObjects
  \cup Envelopes(IssuedIds \cup {"undefined"}, Actions, {"d1"}, {JUndef}, {"undefined"})
  \cup Truncated
Inbound == ResponseInbound \cup EventInbound \cup MixedInbound

(* ------------------------------- state -------------------------------- *)

VARIABLES
  window,           \* the ambient bindings the host injects: channel name -> BridgeVals
  pendingPromises,  \* Map id -> [r, timer]: whose resolve/reject, which timer
  timers,           \* the timeout timers that are set and have neither fired nor been cleared
  calls,            \* the postMessage calls: r -> the call's frame and its promise
  idCount,          \* how many identifiers nanoid() has returned
  ncalls,           \* how many postMessage calls were made
  sentMsgs,         \* envelopes handed to the outbound transport's postMessage without a throw
  eventListeners,   \* Map action -> the callbacks in the Set object of the entry
  cancelFns,        \* the actions listenMessage has returned a cancel function for
  evicted,          \* action -> callbacks a later registration replaced (line 247)
  events,           \* the dispatch calls that took the event branch: e -> frame
  nevents,          \* how many dispatch calls took the event branch
  explicitSdk       \* the instance of the explicit-initialization variant of the class

reqVars == <<pendingPromises, timers, calls, idCount, ncalls, sentMsgs>>
regVars == <<eventListeners, cancelFns, evicted>>
evtVars == <<events, nevents>>
vars == <<window, pendingPromises, timers, calls, idCount, ncalls, sentMsgs,
          eventListeners, cancelFns, evicted, events, nevents, explicitSdk>>

NoMsg == [t |-> "none", text |-> "", code |-> JUndef, action |-> "undefined",
          id |-> "undefined", timeout |-> 0]

\* the frame of a postMessage call and its promise; waited: the call went through
\* the await of line 174
IdleCall == [pc |-> "idle", action |-> "undefined", data |-> "undefined",
             nativeBridge |-> "undefined", id |-> "undefined", waited |-> FALSE,
             settles |-> <<>>]


\* the frame of a dispatch call.  listeners is the Set object line 108 read: "live"
\* while it is the Set of the Map entry of the frame's action, "dead" once cancel
\* has cleared it and deleted the entry (a Set leaves the Map in no other way, and
\* no callback is ever added to a Set that left it); captured is what that Set
\* held when line 108 read it, kept while the dispatch is suspended
IdleEvent == [pc |-> "idle", action |-> "undefined", id |-> "undefined",
              data |-> "undefined", listeners |-> "none", captured |-> {},
              innerBridge |-> "undefined",
              invoked |-> {}, running |-> {}, failed |-> {},
              acks |-> <<>>, escaped |-> FALSE]

\* the variant's instance after its constructor ran in a window that has no
\* transport yet: detectBridge (line 23) found nothing.  calls: the postMessage
\* calls by their position, suspended: whether the call was held at line 64;
\* trigger: the caller of the detectBridge that completed the initialization
NewExplicitSdk ==
  [isInitialized |-> FALSE, nativeBridge |-> "null",
   calls |-> [c \in 1..MaxExplicitCalls |-> [pc |-> "idle", suspended |-> FALSE]],
   ncalls |-> 0, trigger |-> "none"]

Init ==
  /\ window = [c \in Channels |-> "undefined"]
  /\ pendingPromises = << >>
  /\ timers = {}
  /\ calls = [r \in 1..MaxReq |-> IdleCall]
  /\ idCount = 0
  /\ ncalls = 0
  /\ sentMsgs = {}
  /\ eventListeners = << >>
  /\ cancelFns = {}
  /\ evicted = [a \in Actions |-> {}]
  /\ events = [e \in 1..MaxEvt |-> IdleEvent]
  /\ nevents = 0
  /\ explicitSdk = NewExplicitSdk

(* --------------------------- Map operations --------------------------- *)

MapHas(m, k) == k \in DOMAIN m
MapSet(m, k, e) == [x \in DOMAIN m \cup {k} |-> IF x = k THEN e ELSE m[x]]
MapDelete(m, k) == [x \in DOMAIN m \ {k} |-> m[x]]

(* ------------------------- readiness (15-34) -------------------------- *)

getBridge(name) == window[name]

\* the probe of checkBridge: both transports present with a callable postMessage
isBridgeReady == getBridge(channelName) = "ok"
isInnerBridgeReady == getBridge(innerChannel) = "ok"
checkBridge == isBridgeReady /\ isInnerBridgeReady

\* the host (or any script of the page) binds, rebinds or removes a transport
SetWindow(vals) ==
  \E c \in Channels, v \in vals :
    /\ v # window[c]
    /\ window' = [window EXCEPT ![c] = v]
    /\ UNCHANGED <<explicitSdk, reqVars, regVars, evtVars>>

(* ---------------------- the promise of a call ------------------------- *)

\* the envelope behind a resolve/reject call: its id and its data
Via(payload) == [id |-> payload.id, data |-> payload.data, action |-> payload.action]
NoEnvelope == [id |-> "undefined", data |-> "undefined", action |-> "undefined"]

\* one call of the promise's resolve or reject: how, with what value or with what
\* error (its message and its code property), and the envelope that caused it
Settlement(how, value, msg, code, via) ==
  [how |-> how, value |-> value, msg |-> msg, code |-> code, via |-> via]

\* resolve/reject of call r is invoked; the promise keeps its first settlement.  The
\* call's frame (action, data, nativeBridge) is dead from then on
SettleCall(cs, r, rec) ==
  [cs EXCEPT ![r] = [IdleCall EXCEPT !.pc = "settled", !.id = cs[r].id,
                                     !.waited = cs[r].waited,
                                     !.settles = Append(cs[r].settles, rec)]]

(* ------------------------ postMessage (167-215) ----------------------- *)

\* JSON.stringify(payload) returns (198)
Serializable(data) == data # "circular"

\* the message names the action alone
TimeoutError_NoId(action, id, timeout) ==
  [t |-> "timeout", text |-> "", code |-> JUndef, action |-> action, id |-> "undefined",
   timeout |-> timeout]

\* line 188: the timeout error names the action, the id and the timeout
TimeoutError(action, id, timeout) ==
  [t |-> "timeout", text |-> "", code |-> JUndef, action |-> action, id |-> id,
   timeout |-> timeout]

\* line 204-212: the error the try block threw is what the promise rejects with
SendError(cause) == [NoMsg EXCEPT !.t = "cause", !.text = cause]

\* the catch block deletes the entry and rejects but leaves the timer set
Issue_NoClearTimeout(r, action, data, nativeBridge, sendThrows) ==
  LET id == NanoId(idCount + 1)
      timer == r
      entry == [r |-> r, timer |-> timer]
      cause == IF ~Serializable(data) THEN "stringify"
               ELSE IF nativeBridge # "ok" THEN "TypeError"
               ELSE IF sendThrows THEN "transport"
               ELSE "none"
      frame == [calls[r] EXCEPT !.pc = "pending", !.action = action, !.data = data,
                                !.nativeBridge = nativeBridge, !.id = id]
      cs == [calls EXCEPT ![r] = frame]
  IN  /\ idCount' = idCount + 1
      /\ timers' = timers \cup {timer}
      /\ IF cause = "none"
         THEN /\ pendingPromises' = MapSet(pendingPromises, id, entry)
              /\ sentMsgs' = sentMsgs \cup {[action |-> action, id |-> id, data |-> data]}
              /\ calls' = cs
         ELSE /\ pendingPromises' = MapDelete(MapSet(pendingPromises, id, entry), id)
              /\ sentMsgs' = sentMsgs
              /\ calls' = SettleCall(cs, r,
                             Settlement("reject_send", "undefined", SendError(cause),
                                        JUndef, NoEnvelope))

\* lines 177-214, from nanoid() to the end of the promise executor, for the call in
\* frame r whose captured transport is nativeBridge
Issue(r, action, data, nativeBridge, sendThrows) ==
  LET id == NanoId(idCount + 1)
      timer == r
      entry == [r |-> r, timer |-> timer]
      cause == IF ~Serializable(data) THEN "stringify"
               ELSE IF nativeBridge # "ok" THEN "TypeError"
               ELSE IF sendThrows THEN "transport"
               ELSE "none"
      frame == [calls[r] EXCEPT !.pc = "pending", !.action = action, !.data = data,
                                !.nativeBridge = nativeBridge, !.id = id]
      cs == [calls EXCEPT ![r] = frame]
  IN  /\ idCount' = idCount + 1
      /\ IF cause = "none"
         THEN /\ timers' = timers \cup {timer}
              /\ pendingPromises' = MapSet(pendingPromises, id, entry)
              /\ sentMsgs' = sentMsgs \cup {[action |-> action, id |-> id, data |-> data]}
              /\ calls' = cs
         ELSE /\ timers' = (timers \cup {timer}) \ {timer}
              /\ pendingPromises' = MapDelete(MapSet(pendingPromises, id, entry), id)
              /\ sentMsgs' = sentMsgs
              /\ calls' = SettleCall(cs, r,
                             Settlement("reject_send", "undefined", SendError(cause),
                                        JUndef, NoEnvelope))

\* the timeout timer is started before the readiness wait
PostMessage_TimerBeforeWait ==
  \E action \in Actions, data \in ReqDataVals, sendThrows \in BOOLEAN :
    LET r == ncalls + 1
        nativeBridge == getBridge(channelName)
    IN  /\ ncalls < MaxReq
        /\ ncalls' = ncalls + 1
        /\ UNCHANGED <<window, explicitSdk, regVars, evtVars>>
        /\ IF nativeBridge = "undefined"
           THEN /\ calls' = [calls EXCEPT ![r] = [@ EXCEPT !.pc = "waiting",
                                 !.action = action, !.data = data,
                                 !.nativeBridge = nativeBridge, !.waited = TRUE]]
                /\ timers' = timers \cup {r}
                /\ UNCHANGED <<pendingPromises, idCount, sentMsgs>>
           ELSE Issue(r, action, data, nativeBridge, sendThrows)

\* postMessage(action, data) up to its first await or its return
PostMessage ==
  \E action \in Actions, data \in ReqDataVals, sendThrows \in BOOLEAN :
    LET r == ncalls + 1
        nativeBridge == getBridge(channelName)
    IN  /\ ncalls < MaxReq
        /\ ncalls' = ncalls + 1
        /\ UNCHANGED <<window, explicitSdk, regVars, evtVars>>
        /\ IF nativeBridge = "undefined"
           THEN /\ calls' = [calls EXCEPT ![r] = [@ EXCEPT !.pc = "waiting",
                                 !.action = action, !.data = data,
                                 !.nativeBridge = nativeBridge, !.waited = TRUE]]
                /\ UNCHANGED <<pendingPromises, timers, idCount, sentMsgs>>
           ELSE Issue(r, action, data, nativeBridge, sendThrows)

\* a poll of waitForBridgeReady finds both transports ready and the suspended
\* postMessage continues at line 177 with the transport it captured at line 172
ResumePost ==
  \E r \in 1..MaxReq, sendThrows \in BOOLEAN :
    /\ calls[r].pc = "waiting"
    /\ checkBridge
    /\ UNCHANGED <<window, explicitSdk, ncalls, regVars, evtVars>>
    /\ Issue(r, calls[r].action, calls[r].data, calls[r].nativeBridge, sendThrows)

\* the timer rejects the promise and leaves the entry in the Map
TimerFire_KeepsEntry(r) ==
    LET id == calls[r].id IN
    /\ r \in timers
    /\ timers' = timers \ {r}
    /\ IF MapHas(pendingPromises, id)
       THEN /\ pendingPromises' = pendingPromises
            /\ calls' = SettleCall(calls, r,
                           Settlement("reject_timeout", "undefined",
                                      TimeoutError(calls[r].action, id, DefaultTimeout),
                                      JUndef, NoEnvelope))
       ELSE UNCHANGED <<pendingPromises, calls>>
    /\ UNCHANGED <<window, explicitSdk, idCount, ncalls, sentMsgs, regVars, evtVars>>

\* the callback of the timer call r set at line 182 runs
TimerFire(r) ==
    LET id == calls[r].id IN
    /\ r \in timers
    /\ timers' = timers \ {r}
    /\ IF MapHas(pendingPromises, id)
       THEN /\ pendingPromises' = MapDelete(pendingPromises, id)
            /\ calls' = SettleCall(calls, r,
                           Settlement("reject_timeout", "undefined",
                                      TimeoutError(calls[r].action, id, DefaultTimeout),
                                      JUndef, NoEnvelope))
       ELSE UNCHANGED <<pendingPromises, calls>>
    /\ UNCHANGED <<window, explicitSdk, idCount, ncalls, sentMsgs, regVars, evtVars>>

(* ------- explicit-initialization variant (src/unnamed/part_000) ------- *)

\* the promise is resolved but the suspended calls are not continued
Release_Nothing(held, nativeBridge) == held

\* lines 43 and 64-70: resolveInitialization() continues every call suspended at
\* line 64; a call that finds no nativeBridge throws
Release(held, nativeBridge) ==
  [c \in DOMAIN held |->
     IF held[c].pc = "suspended"
     THEN [held[c] EXCEPT !.pc = IF nativeBridge = "null" THEN "failed" ELSE "proceeded"]
     ELSE held[c]]

\* lines 34-52, called by trigger on the instance sdk
detectBridge(sdk, trigger) ==
  IF window[channelName] = "ok"
  THEN [sdk EXCEPT !.nativeBridge = window[channelName],
                   !.isInitialized = TRUE,
                   !.trigger = IF sdk.isInitialized THEN @ ELSE trigger,
                   !.calls = IF sdk.isInitialized THEN @ ELSE Release(@, window[channelName])]
  ELSE sdk

\* lines 58-64: ensureInitialized up to its await
ensureInitialized(sdk) ==
  IF ~sdk.isInitialized THEN detectBridge(sdk, "postMessage") ELSE sdk

\* lines 292-295
ExplicitInitialize ==
  /\ explicitSdk' = detectBridge(explicitSdk, "initialize")
  /\ UNCHANGED <<window, reqVars, regVars, evtVars>>

\* lines 200-208: postMessage of the variant up to line 208, or suspended at line 64
ExplicitPostMessage ==
  LET sdk == ensureInitialized(explicitSdk)
      c == explicitSdk.ncalls + 1
  IN  /\ explicitSdk.ncalls < MaxExplicitCalls
      /\ explicitSdk' =
           [sdk EXCEPT !.ncalls = c,
                       !.calls[c] =
                          IF ~sdk.isInitialized
                          THEN [pc |-> "suspended", suspended |-> TRUE]
                          ELSE IF sdk.nativeBridge = "null"
                               THEN [pc |-> "failed", suspended |-> FALSE]
                               ELSE [pc |-> "proceeded", suspended |-> FALSE]]
      /\ UNCHANGED <<window, reqVars, regVars, evtVars>>

(* ---------------------- listenMessage (223-255) ----------------------- *)

\* the callbacks registered for an action
Registered(a) == IF MapHas(eventListeners, a) THEN eventListeners[a] ELSE {}

\* the Set is not cleared before the callback is added
AddListener_NoClear(listeners, callback) == listeners \cup {callback}
\* a Set that holds a callback keeps it and drops the new one
AddListener_KeepOld(listeners, callback) ==
  IF Cardinality(listeners) > 0 THEN listeners ELSE listeners \cup {callback}

\* lines 246-252: what the Set holds after callback is registered in it
AddListener(listeners, callback) ==
  IF Cardinality(listeners) > 0 THEN {callback} ELSE listeners \cup {callback}

\* lines 227-255: the registry after listenMessage(action, callback)
listenMessage(action, callback) ==
  LET listeners == Registered(action) IN
  IF callback \in listeners
  THEN eventListeners
  ELSE MapSet(eventListeners, action, AddListener(listeners, callback))

ListenMessage ==
  \E action \in Actions, callback \in Handlers :
    /\ eventListeners' = listenMessage(action, callback)
    /\ cancelFns' = cancelFns \cup {action}
    /\ evicted' = [evicted EXCEPT ![action] =
                     IF callback \in Registered(action) THEN @
                     ELSE (@ \cup Registered(action)) \ {callback}]
    /\ UNCHANGED <<window, explicitSdk, reqVars, evtVars>>

\* cancel removes the entry only while the first callback is the registered one
cancel_OwnOnly(listeners, action) ==
  IF MapHas(listeners, action) /\ evicted[action] = {}
  THEN MapDelete(listeners, action)
  ELSE listeners

\* lines 232-239: the registry after the cancel function of action ran on the
\* registry listeners
cancel(listeners, action) ==
  IF MapHas(listeners, action)
  THEN MapDelete(listeners, action)
  ELSE listeners

\* a cancel function returned by listenMessage(action, ...) is called; the Set it
\* clears is the one the suspended dispatch calls of the action hold
Cancel ==
  \E action \in cancelFns :
    /\ eventListeners' = cancel(eventListeners, action)
    /\ events' = [e \in 1..MaxEvt |->
                    IF events[e].action = action /\ events[e].listeners = "live"
                       /\ ~MapHas(eventListeners', action)
                    THEN [events[e] EXCEPT !.listeners = "dead"] ELSE events[e]]
    /\ UNCHANGED <<window, explicitSdk, reqVars, cancelFns, evicted, nevents>>

(* -------------------------- dispatch (40-142) ------------------------- *)

\* x == null, for a numeric field
Absent(x) == x.t = "undefined"
\* the truthiness of a string field and of a numeric field
TruthyStr(x) == x \notin {"undefined", ""}
TruthyNum(x) == x.t = "number" /\ x.v # 0

\* a response without code succeeds whatever its errorMessage
IsSuccess_IgnoresMessage(payload) ==
  \/ ~Absent(payload.code) /\ payload.code.v >= 200 /\ payload.code.v < 300
  \/ Absent(payload.code)

\* lines 90-93
IsSuccess(payload) ==
  \/ ~Absent(payload.code) /\ payload.code.v >= 200 /\ payload.code.v < 300
  \/ Absent(payload.code) /\ payload.errorMessage = "undefined"

\* lines 97-100: the message of the error a failure response rejects with
ErrorMessage(payload) ==
  IF TruthyStr(payload.errorMessage)
  THEN [NoMsg EXCEPT !.t = "text", !.text = payload.errorMessage]
  ELSE IF TruthyNum(payload.code)
       THEN [NoMsg EXCEPT !.t = "failed with code", !.code = payload.code]
       ELSE [NoMsg EXCEPT !.t = "failed with code", !.text = "unknown"]

\* the oldest entry of the Map, whatever the id of the response
GetEntry_Oldest(pp, id) ==
  pp[CHOOSE k \in DOMAIN pp : \A j \in DOMAIN pp : pp[k].r <= pp[j].r]

\* line 84: the entry a response is matched with
GetEntry(pp, id) == pp[id]

\* the entry is left in the Map
DeleteEntry_Forgotten(pp, id) == pp

\* line 104
DeleteEntry(pp, id) == MapDelete(pp, id)

\* lines 149-156, on the table tb = [pp, timers, calls]
rejectPendingPromise(tb, id, payload) ==
  IF MapHas(tb.pp, id)
  THEN LET promiseCallbacks == tb.pp[id] IN
       [pp |-> MapDelete(tb.pp, id),
        timers |-> tb.timers \ {promiseCallbacks.timer},
        calls |-> SettleCall(tb.calls, promiseCallbacks.r,
                    Settlement("reject_malformed", "undefined",
                               [NoMsg EXCEPT !.t = "missing a valid ID"],
                               JUndef, Via(payload)))]
  ELSE tb

\* lines 83-105, on the table tb
HandleResponse(tb, payload) ==
  LET promiseCallbacks == GetEntry(tb.pp, payload.id) IN
  [pp |-> DeleteEntry(tb.pp, payload.id),
   timers |-> tb.timers \ {promiseCallbacks.timer},
   calls |-> SettleCall(tb.calls, promiseCallbacks.r,
               IF IsSuccess(payload)
               THEN Settlement("resolve", payload.data, NoMsg, JUndef, Via(payload))
               ELSE Settlement("reject_response", "undefined", ErrorMessage(payload),
                               payload.code, Via(payload)))]

\* one call of postMessage on the acknowledgement transport
Ack(action, id, data, code, threw) ==
  [action |-> action, id |-> id, data |-> data, code |-> code, threw |-> threw]

\* lines 116-134 after the callback settled: the sends made on the captured
\* transport and whether an error leaves the async callback.  t1: the send in the
\* try block throws; t2: the send in the catch block throws
Acknowledge(innerBridge, returned, result, action, id, t1, t2) ==
  IF innerBridge = "undefined" THEN [acks |-> <<>>, escaped |-> FALSE]
  ELSE IF innerBridge = "nofn" THEN [acks |-> <<>>, escaped |-> TRUE]
  ELSE IF returned /\ ~t1
       THEN [acks |-> <<Ack(action, id, result, 200, FALSE)>>, escaped |-> FALSE]
  ELSE IF returned
       THEN [acks |-> <<Ack(action, id, result, 200, TRUE),
                        Ack(action, id, "undefined", 500, t2)>>, escaped |-> t2]
  ELSE [acks |-> <<Ack(action, id, "undefined", 500, t2)>>, escaped |-> t2]

\* the registry is read again when the dispatch continues
Callbacks_Current(ev) == Registered(ev.action)

\* the callbacks in the Set a dispatch frame holds
Callbacks(ev) == IF ev.listeners = "live" THEN eventListeners[ev.action] ELSE {}

\* lines 115-135: forEach calls every callback of the Set; the callbacks in
\* throwing throw before they return a promise
InvokeListeners(ev, callbacks, throwing, t2) ==
  LET a == Acknowledge(ev.innerBridge, FALSE, "undefined", ev.action, ev.id, FALSE, t2)
      n == Cardinality(throwing)
  IN [ev EXCEPT !.pc = IF callbacks \ throwing = {} THEN "done" ELSE "running",
                !.listeners = "none",
                !.captured = {},
                !.invoked = callbacks,
                !.running = callbacks \ throwing,
                !.failed = throwing,
                !.acks = IF n = 0 THEN <<>> ELSE a.acks,
                !.escaped = n > 0 /\ a.escaped]

\* line 47: the parsed value has no string id
LacksStringId(m) == m.kind \in {"null", "primitive"} \/ ~IsString(m.id)
\* lines 59 and 107
HasListener(m) == TruthyStr(m.action) /\ MapHas(eventListeners, m.action)

\* the raw string is read for its id and action although it does not parse
Abandons_Lenient(m) ==
  LacksStringId(m) /\ ~MapHas(pendingPromises, m.id) /\ ~HasListener(m)

\* lines 45-80: dispatch returns before line 82
Abandons(m) ==
  \/ m.kind = "invalid"
  \/ LacksStringId(m) /\ ~MapHas(pendingPromises, m.id) /\ ~HasListener(m)

\* the table [pp, timers, calls] when dispatch(m) reaches line 82
TableAtRouting(m) ==
  LET tb == [pp |-> pendingPromises, timers |-> timers, calls |-> calls] IN
  IF m.kind # "invalid" /\ LacksStringId(m) /\ MapHas(pendingPromises, m.id)
  THEN rejectPendingPromise(tb, m.id, m) ELSE tb

\* lines 83 and 107: the branch dispatch(m) takes
IsResponse(m) == ~Abandons(m) /\ MapHas(TableAtRouting(m).pp, m.id)
\* the event branch is tested with if, not with else if
IsEvent_AlsoResponse(m) == ~Abandons(m) /\ HasListener(m)
IsEvent(m) == ~Abandons(m) /\ ~IsResponse(m) /\ HasListener(m)

\* the table [pp, timers, calls] dispatch(m) leaves
TableAfterDispatch(m) ==
  IF IsResponse(m) THEN HandleResponse(TableAtRouting(m), m) ELSE TableAtRouting(m)

\* dispatch(messageJson) up to its first await or its return, for the raw
\* messages of the set msgs; throws: whether a send on the acknowledgement
\* transport may throw
Dispatch(msgs, throws) ==
  \E m \in msgs :
    LET tb2 == TableAfterDispatch(m)
        isEvent == IsEvent(m)
        e == nevents + 1
        innerBridge == getBridge(innerChannel)
    IN  /\ isEvent => nevents < MaxEvt
        /\ pendingPromises' = tb2.pp
        /\ timers' = tb2.timers
        /\ calls' = tb2.calls
        /\ IF isEvent
           THEN LET ev == [IdleEvent EXCEPT !.action = m.action, !.id = m.id,
                                            !.data = m.data,
                                            !.listeners = "live",
                                            !.captured = Registered(m.action),
                                            !.innerBridge = innerBridge]
                IN  /\ nevents' = e
                    /\ IF innerBridge = "undefined"
                       THEN events' = [events EXCEPT ![e] = [ev EXCEPT !.pc = "waiting"]]
                       ELSE \E throwing \in SUBSET Callbacks(ev), t2 \in throws :
                              /\ t2 => throwing # {} /\ innerBridge = "ok"
                              /\ events' = [events EXCEPT ![e] =
                                   InvokeListeners(ev, Callbacks(ev), throwing, t2)]
           ELSE UNCHANGED evtVars
        /\ UNCHANGED <<window, explicitSdk, idCount, ncalls, sentMsgs, regVars>>

\* a poll of waitForBridgeReady finds both transports ready and the suspended
\* dispatch continues at line 115 with the Set and the transport it captured
ResumeDispatch ==
  \E e \in 1..MaxEvt :
    /\ events[e].pc = "waiting"
    /\ checkBridge
    /\ \E throwing \in SUBSET Callbacks(events[e]) :
         events' = [events EXCEPT ![e] =
                    InvokeListeners(@, Callbacks(@), throwing, FALSE)]
    /\ UNCHANGED <<window, explicitSdk, reqVars, regVars, nevents>>

\* the promise a callback returned settles: it resolves with a result of results
\* or it rejects; throws: whether a send on the acknowledgement transport may throw
HandlerSettles(results, throws) ==
  \E e \in 1..MaxEvt :
  \E h \in events[e].running, returned \in BOOLEAN, result \in results,
     t1 \in throws, t2 \in throws :
    LET ev == events[e]
        a == Acknowledge(ev.innerBridge, returned, result, ev.action, ev.id, t1, t2)
    IN  /\ ev.pc = "running"
        /\ ~returned => ~t1
        /\ (t1 \/ t2) => ev.innerBridge = "ok"
        /\ t2 => (~returned \/ t1)
        /\ events' = [events EXCEPT ![e] =
              [ev EXCEPT !.running = @ \ {h},
                         !.pc = IF ev.running = {h} THEN "done" ELSE "running",
                         !.failed = IF returned THEN @ ELSE @ \cup {h},
                         !.acks = @ \o a.acks,
                         !.escaped = @ \/ a.escaped]]
        /\ UNCHANGED <<window, explicitSdk, reqVars, regVars, nevents>>

TimerFires == \E r \in 1..MaxReq : TimerFire(r)
DispatchAny == Dispatch(Inbound, BOOLEAN)
DispatchResponse == Dispatch(ResponseInbound, BOOLEAN)
DispatchEvent == Dispatch(EventInbound, {FALSE})
HandlerSettlesAny == HandlerSettles(ResultVals, BOOLEAN)
DispatchMixed == Dispatch(MixedInbound, {FALSE})
DispatchEventAny == Dispatch(EventInbound, BOOLEAN)
\* the acknowledgement transport takes every message
HandlerSettlesSent == HandlerSettles({"r1"}, {FALSE})

SetWindowAny == SetWindow(BridgeVals)
\* the host binds or removes transports that have a postMessage function
SetWindowUsable == SetWindow({"undefined", "ok"})

\* the whole program
Next ==
  \/ SetWindowAny
  \/ PostMessage
  \/ ResumePost
  \/ TimerFires
  \/ ListenMessage
  \/ Cancel
  \/ DispatchAny
  \/ ResumeDispatch
  \/ HandlerSettlesAny

Spec == Init /\ [][Next]_vars

\* the request side: a page that sends requests and registers no listener
NextReq ==
  \/ SetWindowUsable
  \/ PostMessage
  \/ ResumePost
  \/ TimerFires
  \/ DispatchResponse

SpecReq == Init /\ [][NextReq]_vars

\* the event side: a page that registers listeners and sends no request
NextEvt ==
  \/ SetWindowUsable
  \/ ListenMessage
  \/ Cancel
  \/ DispatchEvent
  \/ ResumeDispatch
  \/ HandlerSettlesSent

SpecEvt == Init /\ [][NextEvt]_vars

\* requests and events together, for a page that makes one request and registers
\* one listener: the host answers and pushes with envelopes
\* that carry an id and an action
NextMix ==
  \/ SetWindowUsable
  \/ ncalls = 0 /\ PostMessage
  \/ ResumePost
  \/ TimerFires
  \/ eventListeners = << >> /\ ListenMessage
  \/ DispatchMixed
  \/ ResumeDispatch
  \/ HandlerSettlesSent

SpecMix == Init /\ [][NextMix]_vars

\* the event side with every behaviour of the transports: a binding without a
\* postMessage function, and sends that throw
NextAck ==
  \/ SetWindowAny
  \/ ListenMessage
  \/ Cancel
  \/ DispatchEventAny
  \/ ResumeDispatch
  \/ HandlerSettlesAny

SpecAck == Init /\ [][NextAck]_vars

\* the explicit-initialization variant and the host that binds the transports
NextExplicit ==
  \/ SetWindowAny
  \/ ExplicitInitialize
  \/ ExplicitPostMessage

SpecExplicit == Init /\ [][NextExplicit]_vars

\* request side with the event loop's guarantee that a timer that is set and not
\* cleared runs
FairSpecReq == SpecReq /\ \A r \in 1..MaxReq : WF_vars(TimerFire(r))

\* request side with the guarantee that the poll timer of waitForBridgeReady
\* (line 25) keeps running: a waiting call continues once a poll can succeed
FairSpecReady == SpecReq /\ WF_vars(ResumePost)

(* ------------------------------ claims -------------------------------- *)

Pending(r) == calls[r].pc = "pending"
Settled(r) == calls[r].pc = "settled"
\* the settlement the promise of call r has taken
Outcome(r) == calls[r].settles[1]
Last(q) == q[Len(q)]

\* C1: every request registered in pendingPromises is completed by exactly one
\* of resolve, reject-by-response, reject-by-timeout, reject-by-send-failure and
\* never by two; its entry is in the table exactly until that completion and
\* never again; no two requests share an entry.
C1_ExactlyOneCompletion ==
  /\ \A r \in 1..MaxReq :
       /\ Len(calls[r].settles) <= 1
       /\ Pending(r) <=> (MapHas(pendingPromises, calls[r].id)
                            /\ pendingPromises[calls[r].id].r = r)
       /\ Pending(r) => Len(calls[r].settles) = 0
       /\ Settled(r) => /\ Len(calls[r].settles) = 1
                         /\ Outcome(r).how \in {"resolve", "reject_response",
                                                 "reject_timeout", "reject_send"}
                         /\ ~MapHas(pendingPromises, calls[r].id)
       /\ calls[r].pc \in {"idle", "waiting"} => Len(calls[r].settles) = 0
  /\ \A k \in DOMAIN pendingPromises : Pending(pendingPromises[k].r)
  /\ \A r1, r2 \in 1..MaxReq :
       (r1 # r2 /\ calls[r1].id # "undefined") => calls[r1].id # calls[r2].id

\* two requests, one completed by a response and one by its timer
C1_Witness ==
  \E r1, r2 \in 1..MaxReq :
    /\ Settled(r1) /\ Outcome(r1).how = "resolve"
    /\ Settled(r2) /\ Outcome(r2).how = "reject_timeout"

\* C2: under fairness of the timer a pending request is eventually completed, by
\* its timer unless a response carrying its id or a send failure completed it;
\* a request rejected by its timer is rejected with the timeout error that names
\* the action and the id of the envelope that was sent, and afterwards its entry
\* is absent from pendingPromises and its timer is not active.
C2_TimeoutRejects ==
  /\ \A r \in 1..MaxReq :
       Pending(r) ~> (Settled(r) /\ (Outcome(r).how = "reject_timeout"
                                     \/ Outcome(r).via.id = calls[r].id))
  /\ [](\A r \in 1..MaxReq :
         (Settled(r) /\ Outcome(r).how = "reject_timeout") =>
           /\ Outcome(r).msg.t = "timeout"
           /\ Outcome(r).msg.id = calls[r].id
           /\ \E s \in sentMsgs : s.id = calls[r].id /\ s.action = Outcome(r).msg.action
           /\ ~MapHas(pendingPromises, calls[r].id)
           /\ r \notin timers)

\* a request rejected by its timer while another request is still pending
C2_Witness ==
  \E r1, r2 \in 1..MaxReq :
    /\ Settled(r1) /\ Outcome(r1).how = "reject_timeout"
    /\ Pending(r2)

\* past line 175: the call has generated its id
Resumed(r) == calls[r].waited /\ calls[r].pc \in {"pending", "settled"}

\* C3: a call of postMessage made while the outbound transport was absent has,
\* once the transports are ready and it continued, sent its envelope
\* {action, id, data} and registered its entry, unless the data could not be
\* serialized or the transport threw; it does not fail because the transport was
\* absent at call time.
C3_SentAfterReadiness ==
  \A r \in 1..MaxReq :
    Resumed(r) =>
      \/ Settled(r) /\ Outcome(r).how = "reject_send"
                    /\ Outcome(r).msg.text \in {"stringify", "transport"}
      \/ \E s \in sentMsgs : s.id = calls[r].id

\* C4: a request completed by a response is completed by the response that
\* carries its own id, with that response's data when it resolves; and a
\* dispatched message changes neither the state nor the entry of a request with
\* another id.
C4_MatchedById ==
  /\ \A r \in 1..MaxReq :
       (Settled(r) /\ Outcome(r).how \in {"resolve", "reject_response"}) =>
         /\ Outcome(r).via.id = calls[r].id
         /\ Outcome(r).how = "resolve" => Outcome(r).value = Outcome(r).via.data
  /\ \A m \in ResponseInbound : \A r \in 1..MaxReq :
       calls[r].id # m.id =>
         /\ TableAfterDispatch(m).calls[r] = calls[r]
         /\ MapHas(pendingPromises, calls[r].id) =>
              /\ MapHas(TableAfterDispatch(m).pp, calls[r].id)
              /\ TableAfterDispatch(m).pp[calls[r].id] = pendingPromises[calls[r].id]

\* the second request was answered while the first is still in flight
C4_Witness ==
  /\ MaxReq >= 2
  /\ Pending(1)
  /\ Settled(2) /\ Outcome(2).how = "resolve" /\ Outcome(2).via.id = calls[2].id

\* the response envelopes of the classification: every class of code with every
\* class of errorMessage
Classified == Envelopes(IssuedIds, {"undefined"}, DataVals, CodeVals, MsgVals)
\* the settlement dispatch(m) gives the request m.id names
SettledBy(m) ==
  Last(TableAfterDispatch(m).calls[pendingPromises[m.id].r].settles)

\* C5: a response whose id matches a pending request resolves the request with
\* the envelope's data exactly when code is present and 200 <= code < 300, or
\* code and errorMessage are both absent; every other combination of code and
\* errorMessage rejects it.
C5_Classification ==
  \A m \in Classified :
    MapHas(pendingPromises, m.id) =>
      LET ok == \/ m.code.t = "number" /\ 200 <= m.code.v /\ m.code.v < 300
                \/ m.code.t = "undefined" /\ m.errorMessage = "undefined"
      IN  /\ ok => SettledBy(m).how = "resolve" /\ SettledBy(m).value = m.data
          /\ ~ok => SettledBy(m).how = "reject_response"

\* one request resolved and one rejected by their responses
C5_Witness ==
  \E r1, r2 \in 1..MaxReq :
    /\ Settled(r1) /\ Outcome(r1).how = "resolve"
    /\ Settled(r2) /\ Outcome(r2).how = "reject_response"

\* C6: a response classified as a failure rejects with the envelope's
\* errorMessage as message whenever errorMessage is present, otherwise with the
\* synthesized message that names the numeric code, "unknown" only when code is
\* absent; the envelope's code is attached to the rejection unchanged.
C6_FailureMessage ==
  \A m \in Classified :
    (MapHas(pendingPromises, m.id) /\ SettledBy(m).how = "reject_response") =>
      /\ SettledBy(m).code = m.code
      /\ m.errorMessage # "undefined" =>
           SettledBy(m).msg = [NoMsg EXCEPT !.t = "text", !.text = m.errorMessage]
      /\ (m.errorMessage = "undefined" /\ m.code.t = "number") =>
           SettledBy(m).msg = [NoMsg EXCEPT !.t = "failed with code", !.code = m.code]
      /\ (m.errorMessage = "undefined" /\ m.code.t = "undefined") =>
           SettledBy(m).msg = [NoMsg EXCEPT !.t = "failed with code", !.text = "unknown"]

\* C7: once listenMessage has replaced a handler of an action by another one,
\* the replaced handler is no longer registered, and a dispatch of an event for
\* the action invokes the handler that is registered and never a replaced one.
C7_ReplacedNeverInvoked ==
  /\ [](\A a \in Actions : evicted[a] \cap Registered(a) = {})
  /\ [][\A e \in 1..MaxEvt :
          events'[e].invoked # events[e].invoked =>
            /\ events'[e].invoked \cap evicted[events'[e].action] = {}
            /\ events'[e].invoked \subseteq Registered(events'[e].action)
            /\ events[e].pc = "idle" =>
                 events'[e].invoked = Registered(events'[e].action)]_vars

\* hA was replaced by hB and a dispatch of the action invoked hB alone
C7_Witness ==
  \E e \in 1..MaxEvt :
    /\ events[e].invoked = {"hB"}
    /\ "hA" \in evicted[events[e].action]
    /\ Registered(events[e].action) = {"hB"}

\* C8: every action has at most one callback in eventListeners, and
\* listenMessage with the callback that is registered for the action leaves
\* eventListeners unchanged.
C8_AtMostOneHandler ==
  \A a \in Actions :
    /\ Cardinality(Registered(a)) <= 1
    /\ \A h \in Registered(a) : listenMessage(a, h) = eventListeners

\* both actions have a handler, one of them after a replacement and a dispatch
C8_Witness ==
  /\ \A a \in Actions : Cardinality(Registered(a)) = 1
  /\ \E a \in Actions : evicted[a] # {}
  /\ \E e \in 1..MaxEvt : events[e].pc = "done"

\* C9: a cancel function of an action removes whatever is registered for the
\* action when it is called, a later replacement included; the registrations of
\* the other actions are unchanged, and a second call changes nothing.
C9_CancelClears ==
  \A a \in cancelFns :
    LET after == cancel(eventListeners, a) IN
    /\ ~MapHas(after, a)
    /\ \A b \in Actions \ {a} :
         /\ MapHas(after, b) <=> MapHas(eventListeners, b)
         /\ MapHas(after, b) => after[b] = eventListeners[b]
    /\ cancel(after, a) = after

\* hA was replaced by hB, then the action was cancelled; the other action keeps
\* its handler
C9_Witness ==
  \E a \in cancelFns :
    /\ "hA" \in evicted[a] /\ "hB" \notin evicted[a]
    /\ ~MapHas(eventListeners, a)
    /\ \E b \in Actions \ {a} : Registered(b) # {}

\* C10: for every handler that threw or rejected during the dispatch of an
\* event, an acknowledgement with code 500 that carries the event's id and
\* action was sent on the acknowledgement channel.
C10_FailureAcknowledged ==
  \A e \in 1..MaxEvt : \A h \in events[e].failed :
    \E i \in 1..Len(events[e].acks) :
      /\ events[e].acks[i].code = 500
      /\ ~events[e].acks[i].threw
      /\ events[e].acks[i].id = events[e].id
      /\ events[e].acks[i].action = events[e].action

\* the handlers of a dispatch whose promise resolved
Succeeded(e) == events[e].invoked \ (events[e].running \cup events[e].failed)
\* the acknowledgements of a dispatch that reached the host
SentAcks(e) == {events[e].acks[i] : i \in {j \in 1..Len(events[e].acks) : ~events[e].acks[j].threw}}

\* C11: when the handler of a dispatched event completed successfully, the
\* acknowledgement sent for the event has code 200 with the event's own action
\* and id, and no acknowledgement with code 500 is sent for it.
C11_SuccessAcknowledged200 ==
  \A e \in 1..MaxEvt :
    Succeeded(e) # {} =>
      /\ \E a \in SentAcks(e) :
           a.code = 200 /\ a.action = events[e].action /\ a.id = events[e].id
      /\ \A a \in SentAcks(e) : a.code # 500

\* C12: dispatching a raw message that is not valid JSON, in any state, leaves
\* pendingPromises, the timers and the promises of the calls as they were, takes
\* neither the response nor the event branch (no handler is invoked, nothing
\* is sent), and returns.
C12_InvalidJsonIgnored ==
  \A m \in MixedInbound :
    m.kind = "invalid" =>
      /\ TableAfterDispatch(m) =
           [pp |-> pendingPromises, timers |-> timers, calls |-> calls]
      /\ ~IsResponse(m)
      /\ ~IsEvent(m)

\* a raw message that does not parse spells the id of a pending request whose
\* timer is set and an action that has a handler
C12_Witness ==
  \E m \in MixedInbound :
    /\ m.kind = "invalid"
    /\ MapHas(pendingPromises, m.id)
    /\ pendingPromises[m.id].timer \in timers
    /\ Registered(m.action) # {}

\* C13: whatever the inbound message, the handler outcome and the behaviour of
\* the acknowledgement transport, no error escapes dispatch or the invocation
\* of a handler.
C13_NoErrorEscapes ==
  \A e \in 1..MaxEvt : ~events[e].escaped

\* C14: when serializing the envelope or the transport's send throws inside
\* postMessage, the call is rejected with the error that was thrown, in the same
\* step its entry is gone from pendingPromises and its timer is cleared and
\* stays so, and the entries and timers of the other requests are unchanged.
C14_SendFailureCleansUp ==
  /\ [](\A r \in 1..MaxReq :
         (Settled(r) /\ Outcome(r).how = "reject_send") =>
           /\ ~MapHas(pendingPromises, calls[r].id)
           /\ r \notin timers
           /\ Outcome(r).msg.t = "cause"
           /\ Outcome(r).msg.text \in {"stringify", "transport", "TypeError"}
           /\ Outcome(r).msg.text = "TypeError" => calls[r].waited)
  /\ [][\A r \in 1..MaxReq :
          (calls[r].pc # "settled" /\ calls'[r].pc = "settled"
           /\ calls'[r].settles[1].how = "reject_send") =>
            /\ pendingPromises' = pendingPromises
            /\ timers' = timers]_vars

\* a send failed while another request is in flight with its entry and its timer
C14_Witness ==
  \E r1, r2 \in 1..MaxReq :
    /\ Settled(r1) /\ Outcome(r1).how = "reject_send"
    /\ Outcome(r1).msg.text \in {"stringify", "transport"}
    /\ Pending(r2) /\ r2 \in timers /\ r2 < r1

\* the dispatch found no acknowledgement transport at line 109 and went through
\* the wait of line 111
Waited(e) == events[e].pc \in {"running", "done"} /\ events[e].innerBridge = "undefined"

\* C15: when an event was dispatched while the acknowledgement channel was not
\* ready and the channel became ready, the acknowledgement of every handler
\* outcome of that dispatch is sent over the channel.
C15_AckSentAfterWaiting ==
  \A e \in 1..MaxEvt :
    Waited(e) =>
      \A h \in events[e].invoked \ events[e].running :
        \E a \in SentAcks(e) : a.action = events[e].action /\ a.id = events[e].id

\* C16: for every handler invocation of a dispatched event at most one send is
\* attempted on the acknowledgement channel, also when that send throws.
C16_AtMostOneSendAttempt ==
  \A e \in 1..MaxEvt :
    Len(events[e].acks) <= Cardinality(events[e].invoked \ events[e].running)

\* C17: an envelope whose id is a string that matches no entry of
\* pendingPromises (never issued, already resolved or rejected, already timed
\* out) leaves pendingPromises, the timers and the promises of all calls as they
\* were; the result of a completed request never changes.
C17_UnknownIdIsNoOp ==
  /\ [](\A m \in Inbound :
         (m.kind = "object" /\ IsString(m.id) /\ ~MapHas(pendingPromises, m.id)) =>
           TableAfterDispatch(m) =
             [pp |-> pendingPromises, timers |-> timers, calls |-> calls])
  /\ [][\A r \in 1..MaxReq : calls[r].pc = "settled" => calls'[r] = calls[r]]_vars

\* one request timed out and another was answered; responses with their ids and
\* with an id that was never issued can still arrive
C17_Witness ==
  /\ \E r \in 1..MaxReq : Settled(r) /\ Outcome(r).how = "reject_timeout"
  /\ \E r \in 1..MaxReq : Settled(r) /\ Outcome(r).how \in {"resolve", "reject_response"}
  /\ \A r \in 1..MaxReq : Settled(r) /\ \E m \in ResponseInbound : m.id = calls[r].id
  /\ \E m \in ResponseInbound : IsString(m.id) /\ m.id \notin IssuedIds
  /\ pendingPromises = << >>

\* C18: an envelope whose id matches an entry of pendingPromises is handled as
\* a response and nothing else: the request is resolved or rejected, and even
\* when the envelope's action has a registered handler no handler is invoked
\* and nothing is sent on the acknowledgement channel.
C18_ResponseStops ==
  /\ [](\A m \in MixedInbound :
         (m.kind = "object" /\ MapHas(pendingPromises, m.id)) =>
           /\ IsResponse(m) /\ ~IsEvent(m)
           /\ TableAfterDispatch(m).calls[pendingPromises[m.id].r].pc = "settled")
  /\ [][\A r \in 1..MaxReq :
          (calls[r].pc = "pending" /\ calls'[r].pc = "settled"
           /\ calls'[r].settles[1].how \in {"resolve", "reject_response"}) =>
            events' = events /\ nevents' = nevents]_vars

\* a request was completed by an envelope whose action has a handler, and no
\* dispatch has taken the event branch
C18_Witness ==
  /\ nevents = 0
  /\ \E r \in 1..MaxReq :
       /\ Settled(r) /\ Outcome(r).how = "resolve"
       /\ Outcome(r).via.action \in Actions
       /\ Registered(Outcome(r).via.action) # {}

\* C19: a dispatch that was suspended on transport readiness invokes, when it
\* continues, the handler that was registered for the action when the dispatch
\* was invoked, also when another handler was registered meanwhile.
C19_SuspendedDispatchKeepsHandler ==
  [][\A e \in 1..MaxEvt :
       (events[e].pc = "waiting" /\ events'[e].pc # "waiting"
        /\ events[e].listeners = "live") =>
         events'[e].invoked = events[e].captured]_vars

\* C20: waitForBridgeReady completes only in a state where the outbound
\* transport is present with a callable postMessage, and once the outbound
\* transport is present with a callable postMessage and stays so, every wait
\* eventually completes.
C20_ReadyOnceOutboundUsable ==
  /\ [][\A r \in 1..MaxReq :
          (calls[r].pc = "waiting" /\ calls'[r].pc # "waiting") => isBridgeReady]_vars
  /\ <>[]isBridgeReady => \A r \in 1..MaxReq : <>[](calls[r].pc # "waiting")

\* C21: a parsed envelope without a string id whose action has a registered
\* handler is dispatched as an event, its handler is invoked and the outcome is
\* acknowledged with the envelope's id as received; one whose action has no
\* registered handler is abandoned: no handler invoked, nothing sent, no state
\* change.
C21_TolerantEvents ==
  /\ \A m \in EventInbound :
       (m.kind = "object" /\ ~IsString(m.id)) =>
         /\ HasListener(m) => IsEvent(m)
         /\ ~HasListener(m) =>
              /\ Abandons(m)
              /\ ~IsEvent(m)
              /\ TableAfterDispatch(m) =
                   [pp |-> pendingPromises, timers |-> timers, calls |-> calls]
  /\ \A e \in 1..MaxEvt :
       (events[e].pc \in {"running", "done"} /\ ~IsString(events[e].id)) =>
         \A h \in events[e].invoked \ events[e].running :
           \E a \in SentAcks(e) : a.id = events[e].id /\ a.action = events[e].action

\* C22: a postMessage call made while the outbound transport is absent has no
\* entry in pendingPromises, no timer, no id and no result while it waits for
\* readiness, and it leaves the wait only in a state where both transports are
\* ready: while they are not, it neither resolves nor rejects, not even by
\* timeout.
C22_NoTimeoutWhileWaiting ==
  /\ [](\A r \in 1..MaxReq :
         calls[r].pc = "waiting" =>
           /\ r \notin timers
           /\ \A k \in DOMAIN pendingPromises : pendingPromises[k].r # r
           /\ calls[r].id = "undefined"
           /\ Len(calls[r].settles) = 0)
  /\ [][\A r \in 1..MaxReq :
          (calls[r].pc = "waiting" /\ calls'[r].pc # "waiting") => checkBridge]_vars

\* a later request has timed out while an earlier call is still waiting for
\* readiness
C22_Witness ==
  \E r1, r2 \in 1..MaxReq :
    /\ r1 < r2
    /\ calls[r1].pc = "waiting"
    /\ Settled(r2) /\ Outcome(r2).how = "reject_timeout"

\* C23: every key of pendingPromises is a generated string, so dispatching an
\* envelope whose id is not a string resolves, rejects or removes no entry and
\* clears no timer, and the branch that rejects a request for a malformed id
\* (lines 49-58) is never taken.
C23_NonStringIdTouchesNothing ==
  /\ \A k \in DOMAIN pendingPromises : IsString(k) /\ k \in IssuedIds
  /\ \A m \in Inbound :
       (m.kind # "invalid" /\ ~IsString(m.id)) =>
         /\ ~IsResponse(m)
         /\ TableAtRouting(m) =
              [pp |-> pendingPromises, timers |-> timers, calls |-> calls]
         /\ TableAfterDispatch(m) =
              [pp |-> pendingPromises, timers |-> timers, calls |-> calls]
  /\ \A r \in 1..MaxReq : \A i \in 1..Len(calls[r].settles) :
       calls[r].settles[i].how # "reject_malformed"

\* every request is in flight with its timer set, and envelopes with an absent
\* and with a numeric id can arrive
C23_Witness ==
  /\ \A r \in 1..MaxReq : Pending(r) /\ r \in timers
  /\ \A i \in NonStringIds : \E m \in ResponseInbound : m.kind = "object" /\ m.id = i

\* C24: a dispatch that found the acknowledgement transport absent has invoked
\* no handler and sent nothing while it waits, and continues only in a state
\* where both transports are ready; when the registration of its action was
\* cancelled while it waited, it invokes no handler and sends no
\* acknowledgement, also when a handler is registered for the action again.
C24_CancelledWhileSuspended ==
  /\ [](\A e \in 1..MaxEvt :
         events[e].pc = "waiting" =>
           /\ events[e].invoked = {} /\ events[e].running = {}
           /\ events[e].failed = {} /\ events[e].acks = << >>)
  /\ [][\A e \in 1..MaxEvt :
          (events[e].pc = "waiting" /\ events'[e].pc # "waiting") =>
            /\ checkBridge
            /\ events[e].listeners = "dead" =>
                 /\ events'[e].pc = "done"
                 /\ events'[e].invoked = {}
                 /\ events'[e].acks = << >>]_vars
  /\ [][\A e \in 1..MaxEvt :
          (events[e].pc = "done" /\ events[e].invoked = {}) => events'[e] = events[e]]_vars

\* a dispatch whose action was cancelled while it waited has finished without
\* invoking anything although the action has a handler again
C24_Witness ==
  \E e \in 1..MaxEvt :
    /\ events[e].pc = "done"
    /\ events[e].invoked = {}
    /\ events[e].acks = << >>
    /\ Registered(events[e].action) # {}


\* the postMessage calls of the variant that are held at line 64
Suspended(sdk) == {c \in 1..MaxExplicitCalls : sdk.calls[c].pc = "suspended"}

\* the postMessage calls of the variant that went on to line 208
Proceeded(sdk) == {c \in 1..MaxExplicitCalls : sdk.calls[c].pc = "proceeded"}

\* C25: in the explicit-initialization variant isInitialized never goes back to
\* false and implies that nativeBridge is a detected transport; a call is held
\* only while the instance is not initialized; a held call leaves
\* ensureInitialized only in a step whose detectBridge succeeds for the first
\* time (the transport is present and the step is initialize() or a postMessage
\* call, never the host's binding of the transport), that step releases every
\* held call, and a step that binds or unbinds the transport leaves the
\* instance, and so every held call, as it was.
C25_ExplicitInitialization ==
  /\ [](/\ explicitSdk.isInitialized =>
             /\ explicitSdk.nativeBridge = "ok"
             /\ Suspended(explicitSdk) = {}
             /\ explicitSdk.trigger \in {"initialize", "postMessage"}
        /\ ~explicitSdk.isInitialized =>
             /\ Proceeded(explicitSdk) = {}
             /\ explicitSdk.trigger = "none"
        /\ \A c \in 1..MaxExplicitCalls : explicitSdk.calls[c].pc # "failed")
  /\ [][/\ explicitSdk.isInitialized => explicitSdk'.isInitialized
        /\ Suspended(explicitSdk) \ Suspended(explicitSdk') # {} =>
             /\ ~explicitSdk.isInitialized
             /\ explicitSdk'.isInitialized
             /\ window[channelName] = "ok"
             /\ window' = window
             /\ Suspended(explicitSdk') = {}
             /\ Suspended(explicitSdk) \subseteq Proceeded(explicitSdk')
        /\ window' # window => explicitSdk' = explicitSdk]_vars

\* two calls were held, the transport was bound afterwards, and initialize()
\* released both; the third call went straight through
C25_Witness ==
  /\ explicitSdk.trigger = "initialize"
  /\ \A c \in {1, 2} : /\ explicitSdk.calls[c].suspended
                        /\ explicitSdk.calls[c].pc = "proceeded"
  /\ explicitSdk.calls[3] = [pc |-> "proceeded", suspended |-> FALSE]

====
